---- MODULE Spec2Model ----
(***************************************************************************)
(* Model of the Trenord integration: the upstream client (TrenordApi), the *)
(* polling policy and update coordinator (TrainUpdateCoordinator), and the *)
(* three sensors fed by it (status, delay, suppression).                   *)
(*                                                                         *)
(* Python values are modelled as follows.                                  *)
(*   - "X | None" is a sequence of length at most one: None is <<>> and a  *)
(*     present value x is <<x>>.                                           *)
(*   - a datetime is the record of its calendar fields, as Python stores   *)
(*     it; ordering and subtraction go through the proleptic Gregorian     *)
(*     ordinal, as datetime does. All datetimes are wall-clock values of   *)
(*     the one reference timezone (Europe/Rome).                           *)
(*   - a JSON object is a record; an absent key is an absent field.        *)
(***************************************************************************)
EXTENDS Integers, Sequences, FiniteSets, TLC

VARIABLES
    now,             \* the wall clock (a datetime), read by datetime.now(...)
    data,            \* DataUpdateCoordinator.data: the last snapshot, or None
    departure_time,  \* TrainUpdateCoordinator.departure_time
    arrival_time,    \* TrainUpdateCoordinator.arrival_time
    state,           \* "IDLE" or "FETCHING": whether an update is in flight
    pending,         \* the get_train calls started and not yet ended
    last_tick,       \* what the tick being handled decided (history), or None
    last_fetch,      \* how the last completed fetch ended (history), or None
    published,       \* what the last tick handed to the subscribers, or None
    entities,        \* the three sensors once added (their attributes), or None
    handled,         \* the update the sensors' handlers just ran on (history), or None
    call,            \* TrenordApi helper under test: its name and arguments
    ret              \* the value that helper returned, or None

vars == <<now, data, departure_time, arrival_time, state, pending,
          last_tick, last_fetch, published, entities, handled, call, ret>>

---------------------------------------------------------------------------
(* Bounds of the model. *)

\* Longest pass list handed to _get_current_station.
MaxPassList == 4

\* Largest delay (minutes) an upstream payload carries.
MaxDelay == 7

\* Year and day of month of the day the train was configured on.
BaseYear == 2023

BaseDay == 15

---------------------------------------------------------------------------
(* Optional values. *)

None == <<>>

Some(x) == <<x>>

Get(o) == o[1]

---------------------------------------------------------------------------
(* datetime *)

IsLeap(y) == (y % 4 = 0) /\ ((y % 100 # 0) \/ (y % 400 = 0))

DaysInMonth(y, m) ==
    IF m = 2 THEN (IF IsLeap(y) THEN 29 ELSE 28)
    ELSE IF m \in {4, 6, 9, 11} THEN 30 ELSE 31

RECURSIVE DaysBeforeMonthOf(_, _)
DaysBeforeMonthOf(y, m) ==
    IF m = 1 THEN 0 ELSE DaysBeforeMonthOf(y, m - 1) + DaysInMonth(y, m - 1)

\* The days of the year before month m, for the years the model visits.
DaysBeforeMonth ==
    [y \in BaseYear .. BaseYear + 1 |-> [m \in 1..12 |-> DaysBeforeMonthOf(y, m)]]

DaysBeforeYear(y) ==
    LET p == y - 1 IN p * 365 + (p \div 4) - (p \div 100) + (p \div 400)

\* date.toordinal(), counted from 2000-01-01 instead of 0001-01-01 so that the
\* seconds below stay within TLC's integers.
EpochOrdinal == DaysBeforeYear(2000)

DaysBeforeYearOf == [y \in BaseYear .. BaseYear + 1 |-> DaysBeforeYear(y) - EpochOrdinal]

ToOrdinal(d) == DaysBeforeYearOf[d.year] + DaysBeforeMonth[d.year][d.month] + d.day

\* The total order of datetimes, and the scale their differences are taken on.
Seconds(d) == ((ToOrdinal(d) * 24 + d.hour) * 60 + d.minute) * 60 + d.second

\* timedelta(minutes=m), in seconds.
timedelta(m) == m * 60

DateTime(y, mo, d, h, mi, s) ==
    [year |-> y, month |-> mo, day |-> d, hour |-> h, minute |-> mi, second |-> s]

\* datetime.strptime(f"{datestr}{time}", "%Y%m%d%H:%M:%S"): the date is the
\* eight digits YYYYMMDD, the time is the text HH:MM:SS.
_parse_datetime(datestr, time) ==
    DateTime(datestr \div 10000, (datestr \div 100) % 100, datestr % 100,
             time[1], time[2], time[3])

\* date.today().strftime("%Y-%m-%d") and the payload's "date": YYYYMMDD digits.
DateStr(d) == (d.year * 100 + d.month) * 100 + d.day

---------------------------------------------------------------------------
(* TrainUpdateCoordinator._is_polling_allowed *)

_is_polling_allowed_SkipsDuringJourney(t, dep, arr, d) ==
    IF t.day # dep.day THEN TRUE
    ELSE IF d # None THEN TRUE
    ELSE IF Seconds(dep) > Seconds(t)
         THEN Seconds(dep) - Seconds(t) < timedelta(30)
    ELSE IF Seconds(t) > Seconds(arr)
         THEN Seconds(t) - Seconds(arr) < timedelta(10)
    ELSE FALSE

_is_polling_allowed(t, dep, arr, d) ==
    IF t.day # dep.day
    THEN TRUE                                     \* "date has changed - refresh"
    ELSE IF d # None
    THEN TRUE                                     \* "always allow first polling"
    ELSE IF Seconds(dep) > Seconds(t)
    THEN Seconds(dep) - Seconds(t) < timedelta(30)
    ELSE IF Seconds(t) > Seconds(arr)
    THEN Seconds(t) - Seconds(arr) < timedelta(10)
    ELSE TRUE

---------------------------------------------------------------------------
(* trenord_apis: enums and DTOs *)

\* TrainStatus members, by name.
TrainStatus == {"NONE", "TRAVELLING", "CANCELLED"}

\* TrainStationType members, by name.
TrainStationType == {"ORIGIN", "STOP", "DESTINATION"}

TrenordTrainSuppression(from_station_id, from_station_name, to_station_id, to_station_name) ==
    [from_station_id |-> from_station_id, from_station_name |-> from_station_name,
     to_station_id |-> to_station_id, to_station_name |-> to_station_name]

TrenordTrainCurrentStation(station_id, name, station_type, arr, dep) ==
    [station_id |-> station_id, name |-> name, station_type |-> station_type,
     arrival_time |-> arr, departure_time |-> dep]

TrenordTrain(train_id, name, status, delay, dep, departure_station_id, departure_station_name, arr, suppression, current_station) ==
    [train_id |-> train_id, name |-> name, status |-> status, delay |-> delay,
     departure_time |-> dep, departure_station_name |-> departure_station_name,
     departure_station_id |-> departure_station_id, arrival_time |-> arr,
     suppression |-> suppression, current_station |-> current_station]

---------------------------------------------------------------------------
(* TrenordApi._get_status *)

_get_status_RawCodeFirst(train_status, cancelled, departure_station_id, arrival_station_id, suppression, current_station) ==
    IF current_station # None /\ Get(current_station).station_type = "DESTINATION"
    THEN "NONE"
    ELSE IF train_status = Some("V")
    THEN "TRAVELLING"
    ELSE IF /\ suppression # None
            /\ Get(suppression).from_station_id = departure_station_id
            /\ Get(suppression).to_station_id = arrival_station_id
    THEN "CANCELLED"
    ELSE IF cancelled = Some(TRUE)
    THEN "CANCELLED"
    ELSE "NONE"

_get_status_CancelledFirst(train_status, cancelled, departure_station_id, arrival_station_id, suppression, current_station) ==
    IF cancelled = Some(TRUE) THEN "CANCELLED"
    ELSE IF current_station # None
            /\ Get(current_station).station_type = "DESTINATION"
    THEN "NONE"
    ELSE IF suppression # None
            /\ Get(suppression).from_station_id = departure_station_id
            /\ Get(suppression).to_station_id = arrival_station_id
    THEN "CANCELLED"
    ELSE IF train_status = Some("V") THEN "TRAVELLING"
    ELSE "NONE"

_get_status(train_status, cancelled, departure_station_id, arrival_station_id, suppression, current_station) ==
    IF current_station # None
       /\ Get(current_station).station_type = "DESTINATION"
    THEN "NONE"
    ELSE IF suppression # None
            /\ Get(suppression).from_station_id = departure_station_id
            /\ Get(suppression).to_station_id = arrival_station_id
    THEN "CANCELLED"
    ELSE IF cancelled = Some(TRUE)
    THEN "CANCELLED"
    ELSE IF train_status = Some("V")
    THEN "TRAVELLING"
    ELSE "NONE"

---------------------------------------------------------------------------
(* TrenordApi._get_current_station *)

\* The takewhile predicate: a truthy "cancelled" ends the scan, and so does a
\* checkpoint without "actual_data" or whose actual data lacks either key.
Passed(x) ==
    /\ ~x.cancelled
    /\ "actual_data" \in DOMAIN x
    /\ "actual_station_mir" \in DOMAIN x.actual_data
    /\ "actual_station_name" \in DOMAIN x.actual_data

\* itertools.takewhile(pred, list): the longest prefix whose items all pass.
RECURSIVE takewhile(_)
takewhile(l) ==
    IF l = <<>> \/ ~Passed(Head(l)) THEN <<>>
    ELSE <<Head(l)>> \o takewhile(Tail(l))

\* filter(pred, list): every item that passes, wherever it stands.
RECURSIVE filter(_)
filter(l) ==
    IF l = <<>> THEN <<>>
    ELSE (IF Passed(Head(l)) THEN <<Head(l)>> ELSE <<>>) \o filter(Tail(l))

StationTypeOf(code) ==
    IF code = "D" THEN "DESTINATION"
    ELSE IF code = "O" THEN "ORIGIN"
    ELSE "STOP"

StationOf(last_passed_station) ==
    TrenordTrainCurrentStation(
        last_passed_station.actual_data.actual_station_mir,
        last_passed_station.actual_data.actual_station_name,
        StationTypeOf(last_passed_station.type),
        None, None)

_get_current_station_LastPassedAnywhere(train_pass_list) ==
    LET passed_stations == filter(train_pass_list) IN
    IF Len(passed_stations) = 0 THEN None
    ELSE Some(StationOf(passed_stations[Len(passed_stations)]))

_get_current_station(train_pass_list) ==
    LET passed_stations == takewhile(train_pass_list) IN
    IF Len(passed_stations) = 0 THEN None
    ELSE Some(StationOf(passed_stations[Len(passed_stations)]))

---------------------------------------------------------------------------
(* TrenordApi.get_train *)

\* What a call returns or raises: exc is None when it returned.
Return(v) == [exc |-> None, value |-> v]

Raise(e) == [exc |-> Some(e), value |-> None]

HasKeys(obj, keys) == keys \subseteq DOMAIN obj

\* str.lower().capitalize() on the station and direction names in use.
Capitalize(s) ==
    CASE s = "MILANO CENTRALE" -> "Milano centrale"
      [] s = "LECCO" -> "Lecco"
      [] s = "MONZA" -> "Monza"
      [] OTHER -> s

\* The subscripts get_train takes without a guard, journey_list[0] apart: a
\* missing one is a KeyError.
RequiredKeys(json) ==
    /\ HasKeys(json.journey_list[1], {"train", "pass_list"})
    /\ HasKeys(json.journey_list[1].train, {"line", "train_name", "direction", "delay"})
    /\ HasKeys(json, {"date", "dep_time", "arr_time", "dep_station", "arr_station", "cancelled"})
    /\ HasKeys(json.dep_station, {"station_ori_name", "station_id"})
    /\ HasKeys(json.arr_station, {"station_id"})
    /\ "suppression_start" \in DOMAIN json.journey_list[1].train
       => HasKeys(json.journey_list[1].train,
                  {"suppression_start_mir", "suppression_end_mir", "suppression_end"})

ParseTrain(train_id, json) ==
    LET entry == json.journey_list[1]
        train == entry.train
        line == train.line
        name == train.train_name
        direction == Capitalize(train.direction)
        dep == _parse_datetime(json.date, json.dep_time)
        arr == _parse_datetime(json.date, json.arr_time)
        departure_station == Capitalize(json.dep_station.station_ori_name)
        departure_station_id == json.dep_station.station_id
        arrival_station_id == json.arr_station.station_id
        suppression ==
            IF "suppression_start" \in DOMAIN train
            THEN Some(TrenordTrainSuppression(train.suppression_start_mir,
                                              train.suppression_start,
                                              train.suppression_end_mir,
                                              train.suppression_end))
            ELSE None
        current_station == _get_current_station(entry.pass_list)
    IN  TrenordTrain(
            train_id,
            <<line, name, <<dep.hour, dep.minute>>, departure_station, direction>>,
            _get_status(IF "status" \in DOMAIN train THEN train.status ELSE None,
                        json.cancelled, departure_station_id, arrival_station_id,
                        suppression, current_station),
            IF train.delay = None THEN 0 ELSE Get(train.delay),
            dep, departure_station_id, departure_station, arr,
            suppression, current_station)

\* response: what requests.get and raise_for_status yield: an exception of
\* requests (error), or the decoded JSON list (json).
get_train(train_id, response) ==
    IF response.error # None THEN Raise(Get(response.error))
    ELSE IF Len(response.json) = 0 THEN Return(None)
    ELSE IF "journey_list" \notin DOMAIN response.json[1] THEN Raise("KeyError")
    ELSE IF Len(response.json[1].journey_list) = 0 THEN Raise("IndexError")
    ELSE IF ~RequiredKeys(response.json[1]) THEN Raise("KeyError")
    ELSE Return(Some(ParseTrain(train_id, response.json[1])))

---------------------------------------------------------------------------
(* The upstream endpoint and the clock: the inputs of the coordinator. *)

\* The configured train: entry.data["train_id"].
TrainId == "2559"

\* HH:MM:SS of a second of the day.
TimeOfDay(s) == <<s \div 3600, (s \div 60) % 60, s % 60>>

\* The timetables the endpoint serves: departure and arrival as HH:MM:SS.
Timetable ==
    { [dep_time |-> <<8, 0, 0>>, arr_time |-> <<9, 0, 0>>],
      [dep_time |-> <<8, 5, 0>>, arr_time |-> <<9, 10, 0>>] }

\* The days the clock visits: the day the train was configured, the next day,
\* the same day of the next month and the same day of the next year.
Dates ==
    { [year |-> BaseYear, month |-> 1, day |-> BaseDay],
      [year |-> BaseYear, month |-> 1, day |-> BaseDay + 1],
      [year |-> BaseYear, month |-> 2, day |-> BaseDay],
      [year |-> BaseYear + 1, month |-> 1, day |-> BaseDay] }

\* Seconds of the day the clock visits: at and one second inside both
\* polling-window edges of the 08:00 - 09:00 timetable, and the departure and
\* the arrival themselves.
ClockTimes ==
    LET dep == 8 * 3600
        arr == 9 * 3600
    IN  { dep - timedelta(30), dep - timedelta(30) + 1, dep, arr,
          arr + timedelta(10) - 1, arr + timedelta(10) }

Clock ==
    { DateTime(d.year, d.month, d.day, TimeOfDay(s)[1], TimeOfDay(s)[2], TimeOfDay(s)[3]) :
        d \in Dates, s \in ClockTimes }

\* A checkpoint of a pass list; station k is "S<k>".
StationIds == <<"S1", "S2", "S3", "S4", "S5", "S6">>

Checkpoint(k, type, cancelled) ==
    [cancelled |-> cancelled, type |-> type,
     actual_data |-> [actual_station_mir |-> Some(StationIds[k]),
                      actual_station_name |-> Some("MONZA")]]

\* The optional keys of the nested train object: a raw status code, and the
\* four suppression keys (here a suppression of the whole journey).
StatusKey == [status |-> Some("V")]

SuppressionKeys ==
    [suppression_start |-> Some("MILANO CENTRALE"), suppression_start_mir |-> Some("S1"),
     suppression_end |-> Some("LECCO"), suppression_end_mir |-> Some("S3")]

\* The entries of journey_list the endpoint serves: a train not yet running, a
\* train under way that passed its origin, and a suppressed train; each with
\* a null, a positive and a negative delay.
Entries ==
    { [train |-> [line |-> "R4", train_name |-> "2559", direction |-> "LECCO",
                  delay |-> dl] @@ v.keys,
       pass_list |-> v.pass_list] :
        dl \in {None, Some(MaxDelay), Some(-1)},
        v \in { [keys |-> <<>>, pass_list |-> <<>>],
                [keys |-> StatusKey, pass_list |-> <<Checkpoint(1, "O", FALSE)>>],
                [keys |-> StatusKey @@ SuppressionKeys, pass_list |-> <<>>] } }

\* The journey-day records the endpoint serves for the day asked for.
Journeys(today) ==
    { [date |-> today, dep_time |-> tt.dep_time, arr_time |-> tt.arr_time,
       cancelled |-> Some(FALSE),
       dep_station |-> [station_id |-> Some("S1"), station_ori_name |-> "MILANO CENTRALE"],
       arr_station |-> [station_id |-> Some("S3")],
       journey_list |-> <<e>>] :
        tt \in Timetable, e \in Entries }

\* A journey-day record of an unexpected shape.
Malformed(today) ==
    { [date |-> today, journey_list |-> <<>>],
      [date |-> today, cancelled |-> Some(FALSE)] }

\* What one call of the endpoint can yield for the day asked for. cause names
\* what happened upstream; get_train never reads it.
Response(cause, late, error, json) ==
    [cause |-> cause, late |-> late, error |-> error, json |-> json]

\* late: the call does not end within the 30 seconds _async_update_data allows.
Responses(today) ==
    { Response("Timeout", TRUE, None, <<>>),
      Response("TransportFailure", FALSE, Some("RequestException"), <<>>),
      Response("NotFound", FALSE, None, <<>>) }
    \cup { Response("ParseFailure", FALSE, None, <<j>>) : j \in Malformed(today) }
    \cup { Response("Train", FALSE, None, <<j>>) : j \in Journeys(today) }

---------------------------------------------------------------------------
(* TrainUpdateCoordinator._async_update_data *)

\* What _async_update_data returns or raises, and the departure and arrival
\* times it leaves in the coordinator.
Outcome(exc, value, dep, arr) ==
    [exc |-> exc, value |-> value, departure_time |-> dep, arrival_time |-> arr]

\* The executor job under async_timeout.timeout(30).
AwaitJob(response) ==
    IF response.late THEN Raise("TimeoutError") ELSE get_train(TrainId, response)

_async_update_data_KeepsTimes(allowed, response, d, dep, arr) ==
    IF ~allowed THEN Outcome(None, d, dep, arr)
    ELSE LET got == AwaitJob(response) IN
         IF got.exc # None
         THEN Outcome(IF Get(got.exc) = "ClientError" THEN Some("UpdateFailed") ELSE got.exc,
                      None, dep, arr)
         ELSE IF got.value # None
         THEN Outcome(None, got.value, dep, arr)
         ELSE Outcome(None, d, dep, arr)

_async_update_data_SkipFails(allowed, response, d, dep, arr) ==
    IF ~allowed THEN Outcome(Some("UpdateFailed"), None, dep, arr)
    ELSE LET got == AwaitJob(response) IN
         IF got.exc # None
         THEN Outcome(IF Get(got.exc) = "ClientError" THEN Some("UpdateFailed") ELSE got.exc,
                      None, dep, arr)
         ELSE IF got.value # None
         THEN Outcome(None, got.value, Get(got.value).departure_time,
                      Get(got.value).arrival_time)
         ELSE Outcome(None, d, dep, arr)

_async_update_data_CatchesAll(allowed, response, d, dep, arr) ==
    IF ~allowed THEN Outcome(None, d, dep, arr)
    ELSE LET got == AwaitJob(response) IN
         IF got.exc # None THEN Outcome(Some("UpdateFailed"), None, dep, arr)
         ELSE IF got.value # None
         THEN Outcome(None, got.value, Get(got.value).departure_time,
                      Get(got.value).arrival_time)
         ELSE Outcome(None, d, dep, arr)

_async_update_data_ReturnsFetched(allowed, response, d, dep, arr) ==
    IF ~allowed THEN Outcome(None, d, dep, arr)
    ELSE LET got == AwaitJob(response) IN
         IF got.exc # None
         THEN Outcome(IF Get(got.exc) = "ClientError" THEN Some("UpdateFailed") ELSE got.exc,
                      None, dep, arr)
         ELSE IF got.value # None
         THEN Outcome(None, got.value, Get(got.value).departure_time,
                      Get(got.value).arrival_time)
         ELSE Outcome(None, got.value, dep, arr)

_async_update_data_SwallowsErrors(allowed, response, d, dep, arr) ==
    IF ~allowed THEN Outcome(None, d, dep, arr)
    ELSE LET got == AwaitJob(response) IN
         IF got.exc # None THEN Outcome(None, None, dep, arr)
         ELSE IF got.value # None
         THEN Outcome(None, got.value, Get(got.value).departure_time,
                      Get(got.value).arrival_time)
         ELSE Outcome(None, d, dep, arr)

\* allowed: what _is_polling_allowed answered; response: what the endpoint
\* yields when asked; d, dep, arr: self.data, self.departure_time,
\* self.arrival_time on entry.
_async_update_data(allowed, response, d, dep, arr) ==
    IF ~allowed
    THEN Outcome(None, d, dep, arr)                   \* return self.data
    ELSE LET got == AwaitJob(response) IN
         IF got.exc # None
         THEN \* except ClientError: raise UpdateFailed; anything else propagates
              Outcome(IF Get(got.exc) = "ClientError" THEN Some("UpdateFailed") ELSE got.exc,
                      None, dep, arr)
         ELSE IF got.value # None
         THEN Outcome(None, got.value, Get(got.value).departure_time,
                      Get(got.value).arrival_time)
         ELSE Outcome(None, d, dep, arr)              \* return self.data

---------------------------------------------------------------------------
(* DataUpdateCoordinator: the refresh around _async_update_data *)

\* Seconds an update may take: async_timeout.timeout(30).
UpdateTimeout == 30

CanStartUpdate_Always == TRUE

\* A tick starts an update only when none is in flight.
CanStartUpdate == state = "IDLE"

\* The failures reported as retryable: transport, timeout and HTTP-layer errors.
Retryable(exc) == exc \in {"UpdateFailed", "RequestException", "TimeoutError"}

\* What a finished update hands to the subscribers; d is the data before it.
Publish(out, d) ==
    IF out.exc # None
    THEN [kind |-> IF Retryable(Get(out.exc)) THEN "RetryableFailure" ELSE "FatalFailure",
          data |-> d]
    ELSE IF out.value = d
    THEN [kind |-> "Unchanged", data |-> d]
    ELSE [kind |-> "Snapshot", data |-> out.value]

\* The data the coordinator holds after an update; d is the data before it.
Refreshed(out, d) == IF out.exc # None THEN d ELSE out.value

NoResponse == Response("None", FALSE, None, <<>>)

---------------------------------------------------------------------------
(* The sensors: TrainSensorStatus, TrainSensorDelay, TrainSensorSuppression *)

\* Each handler takes the sensor's attributes (self), self.coordinator.data
\* (train) and, where it reads the clock, datetime.now (t); it returns the
\* attributes it leaves, or raises AttributeError when it dereferences None.

TrainSensorStatus_init == [_attr_native_value |-> None]

TrainSensorStatus_handle_coordinator_update(self, train) ==
    IF train = None THEN Raise("AttributeError")            \* train.status
    ELSE Return([_attr_native_value |-> Some(Get(train).status)])

TrainSensorDelay_init == [_attr_native_value |-> None]

TrainSensorDelay_handle_coordinator_update_NeverResets(self, train, t) ==
    IF train = None THEN Raise("AttributeError")
    ELSE Return([_attr_native_value |-> Some(Get(train).delay)])

TrainSensorDelay_handle_coordinator_update(self, train, t) ==
    IF train = None THEN Raise("AttributeError")            \* train.arrival_time
    ELSE IF Seconds(Get(train).arrival_time) > Seconds(t)
    THEN Return([_attr_native_value |-> Some(Get(train).delay)])
    ELSE Return([_attr_native_value |-> Some(0)])

TrainSensorSuppression_init ==
    [_attr_is_on |-> None, _attr_from_station_name |-> None, _attr_to_station_name |-> None]

TrainSensorSuppression_handle_coordinator_update_KeepsNames(self, train, t) ==
    IF train = None THEN Raise("AttributeError")
    ELSE IF Seconds(Get(train).arrival_time) > Seconds(t) /\ Get(train).suppression # None
    THEN Return([_attr_is_on |-> Some(TRUE),
                 _attr_from_station_name |-> Get(Get(train).suppression).from_station_name,
                 _attr_to_station_name |-> Get(Get(train).suppression).to_station_name])
    ELSE Return([_attr_is_on |-> Some(FALSE),
                 _attr_from_station_name |-> self._attr_from_station_name,
                 _attr_to_station_name |-> self._attr_to_station_name])

TrainSensorSuppression_handle_coordinator_update(self, train, t) ==
    IF train = None THEN Raise("AttributeError")            \* train.arrival_time
    ELSE IF Seconds(Get(train).arrival_time) > Seconds(t)
    THEN IF Get(train).suppression # None
         THEN Return([_attr_is_on |-> Some(TRUE),
                      _attr_from_station_name |-> Get(Get(train).suppression).from_station_name,
                      _attr_to_station_name |-> Get(Get(train).suppression).to_station_name])
         ELSE Return([_attr_is_on |-> Some(FALSE),
                      _attr_from_station_name |-> None,
                      _attr_to_station_name |-> None])
    ELSE \* reset the value after train has arrived
         Return([_attr_is_on |-> Some(FALSE),
                 _attr_from_station_name |-> None,
                 _attr_to_station_name |-> None])

\* async_setup_entry: the three sensors as constructed, added once the first
\* refresh has succeeded.
async_add_entities ==
    [status |-> TrainSensorStatus_init,
     delay |-> TrainSensorDelay_init,
     suppression |-> TrainSensorSuppression_init]

\* The coordinator calls every listener after an update; a handler that
\* raises leaves its sensor as it was. ents: the sensors before; d: the
\* coordinator's data; t: the clock.
async_update_listeners(ents, d, t) ==
    LET st == TrainSensorStatus_handle_coordinator_update(ents.status, d)
        dl == TrainSensorDelay_handle_coordinator_update(ents.delay, d, t)
        su == TrainSensorSuppression_handle_coordinator_update(ents.suppression, d, t)
    IN  [status |-> IF st.exc = None THEN st.value ELSE ents.status,
         delay |-> IF dl.exc = None THEN dl.value ELSE ents.delay,
         suppression |-> IF su.exc = None THEN su.value ELSE ents.suppression]

\* What the handlers ran on, and whether one of them raised.
Handled(ents, d, t) ==
    [data |-> d, now |-> t,
     exc |-> TrainSensorStatus_handle_coordinator_update(ents.status, d).exc]

\* The sensors after an update that published pub and left the data d at
\* time t: a failed update reaches no handler; the first successful one
\* lets the setup add the sensors; every later one runs their handlers.
EntitiesAfter(ents, pub, d, t) ==
    IF pub.kind \in {"RetryableFailure", "FatalFailure"} THEN ents
    ELSE IF ents = None THEN Some(async_add_entities)
    ELSE Some(async_update_listeners(Get(ents), d, t))

HandledAfter(ents, pub, d, t) ==
    IF pub.kind \in {"RetryableFailure", "FatalFailure"} \/ ents = None THEN None
    ELSE Some(Handled(Get(ents), d, t))

---------------------------------------------------------------------------
(* The coordinator's steps *)

\* The date of the journey stored in the config entry when the train was set up.
ConfigDate == DateStr([year |-> BaseYear, month |-> 1, day |-> BaseDay])

Init ==
    /\ now \in Clock
    /\ data = None
    /\ \E tt \in Timetable :
          /\ departure_time = _parse_datetime(ConfigDate, tt.dep_time)
          /\ arrival_time = _parse_datetime(ConfigDate, tt.arr_time)
    /\ state = "IDLE"
    /\ pending = <<>>
    /\ last_tick = None
    /\ last_fetch = None
    /\ published = None
    /\ entities = None
    /\ handled = None
    /\ call = None
    /\ ret = None

\* The update interval elapses (or a refresh is requested) at time t with no
\* update in flight: _async_update_data runs up to its await.
Tick(t) ==
    /\ CanStartUpdate
    /\ Seconds(t) >= Seconds(now)
    /\ now' = t
    /\ LET allowed == _is_polling_allowed(t, departure_time, arrival_time, data) IN
       /\ last_tick' = Some([now |-> t, departure_time |-> departure_time,
                             arrival_time |-> arrival_time,
                             had_data |-> data # None, allowed |-> allowed])
       /\ last_fetch' = None
       /\ IF allowed
          THEN /\ state' = "FETCHING"
               /\ pending' = Append(pending, DateStr(t))
               /\ handled' = None
               /\ UNCHANGED <<data, departure_time, arrival_time, published, entities>>
          ELSE LET out == _async_update_data(FALSE, NoResponse, data,
                                             departure_time, arrival_time) IN
               /\ data' = Refreshed(out, data)
               /\ departure_time' = out.departure_time
               /\ arrival_time' = out.arrival_time
               /\ published' = Some(Publish(out, data))
               /\ entities' = EntitiesAfter(entities, Publish(out, data),
                                            Refreshed(out, data), t)
               /\ handled' = HandledAfter(entities, Publish(out, data),
                                          Refreshed(out, data), t)
               /\ UNCHANGED <<state, pending>>
    /\ UNCHANGED <<call, ret>>

\* A tick at time t while an update is in flight: ignored.
TickIgnored(t) ==
    /\ ~CanStartUpdate
    /\ Seconds(t) >= Seconds(now)
    /\ Seconds(t) - Seconds(now) < UpdateTimeout
    /\ now' = t
    /\ UNCHANGED <<data, departure_time, arrival_time, state, pending,
                   last_tick, last_fetch, published, entities, handled, call, ret>>

\* The awaited get_train ends (or the timeout fires): _async_update_data
\* finishes and the refresh publishes.
FetchDone(response) ==
    /\ pending # <<>>
    /\ LET out == _async_update_data(TRUE, response, data, departure_time, arrival_time) IN
       /\ data' = Refreshed(out, data)
       /\ departure_time' = out.departure_time
       /\ arrival_time' = out.arrival_time
       /\ published' = Some(Publish(out, data))
       /\ entities' = EntitiesAfter(entities, Publish(out, data), Refreshed(out, data), now)
       /\ handled' = HandledAfter(entities, Publish(out, data), Refreshed(out, data), now)
    /\ last_fetch' = Some(response.cause)
    /\ last_tick' = None
    /\ pending' = Tail(pending)
    /\ state' = IF Len(pending) = 1 THEN "IDLE" ELSE state
    /\ UNCHANGED <<now, call, ret>>

Next ==
    \/ \E t \in Clock : Tick(t)
    \/ \E t \in Clock : TickIgnored(t)
    \/ pending # <<>> /\ \E response \in Responses(Head(pending)) : FetchDone(response)

Spec == Init /\ [][Next]_vars

---------------------------------------------------------------------------
(* TrenordApi's helpers on their own: every argument from a bounded set. *)

SuppressionInputs ==
    {None} \cup
    { Some(TrenordTrainSuppression(f, Some("MILANO CENTRALE"), t, Some("LECCO"))) :
        f \in {None, Some("S1"), Some("S2")}, t \in {None, Some("S3"), Some("S2")} }

CurrentStationInputs ==
    {None} \cup
    { Some(TrenordTrainCurrentStation(Some("S2"), Some("MONZA"), ty, None, None)) :
        ty \in TrainStationType }

\* <<train_status, cancelled, departure_station_id, arrival_station_id,
\*   suppression, current_station>>
StatusInputs ==
    {None, Some("V"), Some("S")} \X {None, Some(TRUE), Some(FALSE)}
    \X {None, Some("S1")} \X {None, Some("S3")}
    \X SuppressionInputs \X CurrentStationInputs

\* The type code of checkpoint k of a pass list of n: origin, stops, destination.
TypeCode(k, n) == IF k = 1 THEN "O" ELSE IF k = n THEN "D" ELSE "S"

\* The shapes a checkpoint comes in: passed; cancelled; without actual data;
\* actual data without the name, or without the identifier; actual data whose
\* identifier is null, or whose name is empty.
Shapes == {"passed", "cancelled", "no_data", "no_name", "no_mir", "null_mir", "empty_name"}

Shaped(shape, k, n) ==
    LET mir == IF shape = "null_mir" THEN None ELSE Some(StationIds[k])
        name == IF shape = "empty_name" THEN Some("") ELSE Some("MONZA")
    IN  CASE shape = "no_data" ->
               [cancelled |-> FALSE, type |-> TypeCode(k, n)]
          [] shape = "no_name" ->
               [cancelled |-> FALSE, type |-> TypeCode(k, n),
                actual_data |-> [actual_station_mir |-> mir]]
          [] shape = "no_mir" ->
               [cancelled |-> FALSE, type |-> TypeCode(k, n),
                actual_data |-> [actual_station_name |-> name]]
          [] OTHER ->
               [cancelled |-> shape = "cancelled", type |-> TypeCode(k, n),
                actual_data |-> [actual_station_mir |-> mir, actual_station_name |-> name]]

\* The pass lists of n checkpoints.
PassLists(n) == { [k \in 1..n |-> Shaped(sh[k], k, n)] : sh \in [1..n -> Shapes] }

\* The nested train object as the endpoint sends it: the "delay" key absent,
\* null, positive or negative; the raw status code absent, "V" or another; no
\* suppression, one of the whole journey, or one of a part of it.
ApiTrains ==
    { [line |-> "R4", train_name |-> "2559", direction |-> "LECCO"]
      @@ (CASE dl = "absent" -> <<>>
            [] dl = "null" -> [delay |-> None]
            [] dl = "late" -> [delay |-> Some(MaxDelay)]
            [] OTHER -> [delay |-> Some(-1)])
      @@ (CASE st = "absent" -> <<>>
            [] st = "V" -> StatusKey
            [] OTHER -> [status |-> Some("S")])
      @@ (CASE su = "none" -> <<>>
            [] su = "whole" -> SuppressionKeys
            [] OTHER -> [suppression_start |-> Some("MONZA"),
                         suppression_start_mir |-> Some("S2"),
                         suppression_end |-> Some("LECCO"),
                         suppression_end_mir |-> Some("S3")]) :
        dl \in {"absent", "null", "late", "early"},
        st \in {"absent", "V", "S"},
        su \in {"none", "whole", "part"} }

\* The pass lists served with them: nothing passed, the origin passed, and
\* every checkpoint up to the destination passed.
ApiPassLists ==
    { <<>>,
      <<Checkpoint(1, "O", FALSE)>>,
      <<Checkpoint(1, "O", FALSE), Checkpoint(3, "D", FALSE)>> }

\* What the endpoint can answer to get_train: a failure of the request, no
\* record, or a journey-day record of the 08:00 - 09:00 train from S1 to S3.
ApiResponses ==
    { Response("TransportFailure", FALSE, Some("RequestException"), <<>>),
      Response("NotFound", FALSE, None, <<>>) }
    \cup { Response("Train", FALSE, None,
                    << [date |-> ConfigDate, dep_time |-> <<8, 0, 0>>, arr_time |-> <<9, 0, 0>>,
                        cancelled |-> Some(c),
                        dep_station |-> [station_id |-> Some("S1"),
                                         station_ori_name |-> "MILANO CENTRALE"],
                        arr_station |-> [station_id |-> Some("S3")],
                        journey_list |-> << [train |-> t, pass_list |-> pl] >>] >>) :
             c \in BOOLEAN, t \in ApiTrains, pl \in ApiPassLists }

InitApi ==
    /\ \/ call \in { [fn |-> "_get_status", args |-> a] : a \in StatusInputs }
       \/ \E n \in 0..MaxPassList :
             call \in { [fn |-> "_get_current_station", args |-> <<pl>>] : pl \in PassLists(n) }
       \/ call \in { [fn |-> "get_train", args |-> <<TrainId, r>>] : r \in ApiResponses }
    /\ ret = None
    /\ now = DateTime(BaseYear, 1, BaseDay, 8, 0, 0)
    /\ data = None
    /\ departure_time = _parse_datetime(ConfigDate, <<8, 0, 0>>)
    /\ arrival_time = _parse_datetime(ConfigDate, <<9, 0, 0>>)
    /\ state = "IDLE"
    /\ pending = <<>>
    /\ last_tick = None
    /\ last_fetch = None
    /\ published = None
    /\ entities = None
    /\ handled = None

GetStatus ==
    /\ call.fn = "_get_status"
    /\ ret = None
    /\ ret' = Some(_get_status(call.args[1], call.args[2], call.args[3],
                               call.args[4], call.args[5], call.args[6]))
    /\ UNCHANGED <<now, data, departure_time, arrival_time, state, pending,
                   last_tick, last_fetch, published, entities, handled, call>>

GetCurrentStation ==
    /\ call.fn = "_get_current_station"
    /\ ret = None
    /\ ret' = Some(_get_current_station(call.args[1]))
    /\ UNCHANGED <<now, data, departure_time, arrival_time, state, pending,
                   last_tick, last_fetch, published, entities, handled, call>>

GetTrain ==
    /\ call.fn = "get_train"
    /\ ret = None
    /\ ret' = Some(get_train(call.args[1], call.args[2]))
    /\ UNCHANGED <<now, data, departure_time, arrival_time, state, pending,
                   last_tick, last_fetch, published, entities, handled, call>>

NextApi == GetStatus \/ GetCurrentStation \/ GetTrain

SpecApi == InitApi /\ [][NextApi]_vars

---------------------------------------------------------------------------
(* Properties of the polling decision. last_tick holds the inputs and the  *)
(* answer of _is_polling_allowed for the tick being handled.               *)

SameCalendarDay(a, b) == a.year = b.year /\ a.month = b.month /\ a.day = b.day

Before(a, b) == Seconds(a) < Seconds(b)

\* C1: a tick of a coordinator that holds no snapshot is always allowed to
\* poll, whatever now, departure_time and arrival_time are.
C1_FirstTickAlwaysPolls ==
    (last_tick # None /\ ~Get(last_tick).had_data) => Get(last_tick).allowed

\* C2: with a snapshot held and now on the calendar day of departure_time,
\* before the departure polling is allowed iff fewer than 30 minutes remain,
\* and after the arrival it is allowed iff fewer than 10 minutes have passed.
C2_WindowsApplyWithSnapshot ==
    (last_tick # None /\ Get(last_tick).had_data
       /\ SameCalendarDay(Get(last_tick).now, Get(last_tick).departure_time))
    => LET t == Get(last_tick) IN
       /\ Before(t.now, t.departure_time)
          => (t.allowed <=> Seconds(t.departure_time) - Seconds(t.now) < timedelta(30))
       /\ Before(t.arrival_time, t.now)
          => (t.allowed <=> Seconds(t.now) - Seconds(t.arrival_time) < timedelta(10))

\* C4: a tick on a calendar day other than that of the stored departure_time
\* is always allowed to poll, also when the two days differ only in month or
\* year.
C4_OtherDayAlwaysPolls ==
    (last_tick # None
       /\ ~SameCalendarDay(Get(last_tick).now, Get(last_tick).departure_time))
    => Get(last_tick).allowed

\* C5: a tick with departure_time <= now <= arrival_time is always allowed to
\* poll, with or without a snapshot, and so starts a fetch.
C5_JourneyAlwaysPolled ==
    (last_tick # None
       /\ ~Before(Get(last_tick).now, Get(last_tick).departure_time)
       /\ ~Before(Get(last_tick).arrival_time, Get(last_tick).now))
    => (Get(last_tick).allowed /\ state = "FETCHING" /\ pending # <<>>)

\* C5 witness: a coordinator without snapshot ticks on the day of the month of
\* its departure, between departure and arrival, and starts a fetch.
C5_Witness ==
    /\ last_tick # None
    /\ ~Get(last_tick).had_data
    /\ Get(last_tick).now.day = Get(last_tick).departure_time.day
    /\ ~Before(Get(last_tick).now, Get(last_tick).departure_time)
    /\ ~Before(Get(last_tick).arrival_time, Get(last_tick).now)
    /\ Get(last_tick).allowed
    /\ state = "FETCHING"

---------------------------------------------------------------------------
(* Properties of the coordinator's updates. A step that ends a fetch is    *)
(* one that changes pending and sets last_fetch to what happened upstream. *)

\* C6: a fetch that finds no record leaves the snapshot and the stored
\* departure and arrival times as they were, and publishes the previous
\* snapshot as unchanged.
C6_NotFoundKeepsSnapshot ==
    [][(pending' # pending /\ last_fetch' = Some("NotFound"))
       => /\ data' = data
          /\ departure_time' = departure_time
          /\ arrival_time' = arrival_time
          /\ published' = Some([kind |-> "Unchanged", data |-> data])]_vars

\* C6 witness: a fetch found no record while a snapshot was held.
C6_Witness ==
    /\ last_fetch = Some("NotFound")
    /\ data # None
    /\ published = Some([kind |-> "Unchanged", data |-> data])

\* C7: once a snapshot is held, the coordinator never holds none again, and
\* the snapshot changes only in a step that ends a fetch that returned a train.
C7_FailureKeepsSnapshot ==
    [][data # None
       => /\ data' # None
          /\ data' # data => (pending' # pending /\ last_fetch' = Some("Train"))]_vars

\* C7 witness: a fetch failed (transport, timeout or parse) while a snapshot
\* was held.
C7_Witness ==
    /\ last_fetch \in {Some("TransportFailure"), Some("Timeout"), Some("ParseFailure")}
    /\ data # None

\* C8: a transport or timeout failure is published as a retryable failure and
\* a parse failure as a fatal one.
C8_FailureKinds ==
    /\ last_fetch \in {Some("TransportFailure"), Some("Timeout")}
       => Get(published).kind = "RetryableFailure"
    /\ last_fetch = Some("ParseFailure")
       => Get(published).kind = "FatalFailure"

\* C8 witness: a fetch ended in a parse failure, published as fatal.
C8_Witness ==
    /\ last_fetch = Some("ParseFailure")
    /\ Get(published).kind = "FatalFailure"

\* C9: never more than one get_train call is outstanding, and no step taken
\* while an update is in flight starts another.
C9_SingleFlight ==
    /\ [](Len(pending) <= 1 /\ (state = "FETCHING" <=> Len(pending) = 1))
    /\ [][state = "FETCHING" => Len(pending') <= Len(pending)]_vars

\* C9 witness: a tick arrived while the update was in flight (the clock moved
\* on since the tick that started it) and exactly one call is outstanding.
C9_Witness ==
    /\ state = "FETCHING"
    /\ Len(pending) = 1
    /\ last_tick # None
    /\ Get(last_tick).now # now

---------------------------------------------------------------------------
(* Properties of TrenordApi's helpers. *)

\* C3: _get_status returns the status of the first rule that applies:
\* destination reached gives NONE, then a suppression of the whole journey
\* gives CANCELLED, then the cancelled flag gives CANCELLED, then the raw
\* code "V" gives TRAVELLING, and NONE otherwise.
C3_StatusPrecedence ==
    (call.fn = "_get_status" /\ ret # None)
    => LET train_status == call.args[1]
           cancelled == call.args[2]
           s == call.args[5]
           c == call.args[6]
           arrived == c # None /\ Get(c).station_type = "DESTINATION"
           whole == /\ s # None
                    /\ Get(s).from_station_id = call.args[3]
                    /\ Get(s).to_station_id = call.args[4]
           flagged == cancelled = Some(TRUE)
           running == train_status = Some("V")
       IN  /\ Get(ret) \in TrainStatus
           /\ arrived => Get(ret) = "NONE"
           /\ (~arrived /\ whole) => Get(ret) = "CANCELLED"
           /\ (~arrived /\ ~whole /\ flagged) => Get(ret) = "CANCELLED"
           /\ (~arrived /\ ~whole /\ ~flagged /\ running) => Get(ret) = "TRAVELLING"
           /\ (~arrived /\ ~whole /\ ~flagged /\ ~running) => Get(ret) = "NONE"

\* C3 witness: a train at its destination that is also flagged cancelled is
\* classified NONE.
C3_Witness ==
    /\ call.fn = "_get_status"
    /\ call.args[6] # None
    /\ Get(call.args[6]).station_type = "DESTINATION"
    /\ call.args[2] = Some(TRUE)
    /\ ret = Some("NONE")

\* A checkpoint the scan accepts: not cancelled, and carrying actual data with
\* the station identifier and the station name.
Confirmed(x) ==
    /\ x.cancelled = FALSE
    /\ "actual_data" \in DOMAIN x
    /\ {"actual_station_mir", "actual_station_name"} \subseteq DOMAIN x.actual_data

\* The length of the longest prefix of confirmed checkpoints.
PrefixLen(l) ==
    CHOOSE k \in 0..Len(l) :
        /\ \A i \in 1..k : Confirmed(l[i])
        /\ k < Len(l) => ~Confirmed(l[k + 1])

\* C10: the current station is None iff the pass list is empty or its first
\* checkpoint is unconfirmed; otherwise it carries the identifier and name of
\* the last checkpoint of the longest prefix of confirmed checkpoints.
C10_LongestConfirmedPrefix ==
    (call.fn = "_get_current_station" /\ ret # None)
    => LET l == call.args[1]
           k == PrefixLen(l)
           r == Get(ret)
       IN  /\ r = None <=> (Len(l) = 0 \/ ~Confirmed(l[1]))
           /\ r # None
              => /\ k >= 1
                 /\ Get(r).station_id = l[k].actual_data.actual_station_mir
                 /\ Get(r).name = l[k].actual_data.actual_station_name

\* C10 witness: for [confirmed, confirmed, unconfirmed, confirmed] the current
\* station is the second checkpoint.
C10_Witness ==
    /\ call.fn = "_get_current_station"
    /\ Len(call.args[1]) = 4
    /\ Confirmed(call.args[1][1])
    /\ Confirmed(call.args[1][2])
    /\ ~Confirmed(call.args[1][3])
    /\ Confirmed(call.args[1][4])
    /\ ret # None
    /\ Get(ret) # None
    /\ Get(Get(ret)).station_id = Some(StationIds[2])

\* A value of the payload that is populated: neither null nor the empty string.
IsPopulated(v) == v # None /\ v # Some("")

\* A checkpoint that is not flagged cancelled and carries actual-arrival data
\* with a populated station identifier and a populated station name.
Populated(x) ==
    /\ x.cancelled = FALSE
    /\ "actual_data" \in DOMAIN x
    /\ "actual_station_mir" \in DOMAIN x.actual_data
    /\ "actual_station_name" \in DOMAIN x.actual_data
    /\ IsPopulated(x.actual_data.actual_station_mir)
    /\ IsPopulated(x.actual_data.actual_station_name)

\* The length of the longest prefix of populated checkpoints.
PopulatedPrefixLen(l) ==
    CHOOSE k \in 0..Len(l) :
        /\ \A i \in 1..k : Populated(l[i])
        /\ k < Len(l) => ~Populated(l[k + 1])

\* C11: a checkpoint counts as confirmed iff it is not flagged cancelled and
\* its actual-arrival data has both the station identifier and the station
\* name populated; one whose identifier or name is absent, null or empty ends
\* the prefix, so the current station is the last checkpoint of the longest
\* prefix of populated checkpoints, and None when that prefix is empty.
C11_ConfirmedMeansPopulated ==
    (call.fn = "_get_current_station" /\ ret # None)
    => LET l == call.args[1]
           k == PopulatedPrefixLen(l)
           r == Get(ret)
       IN  /\ r = None <=> k = 0
           /\ r # None
              => /\ k >= 1
                 /\ Get(r).station_id = l[k].actual_data.actual_station_mir
                 /\ Get(r).name = l[k].actual_data.actual_station_name

\* The call is one about a train whose suppression runs from the journey's
\* departure station to its arrival station and whose cancelled flag is
\* false, and it has returned a status: _get_status itself, or get_train on a
\* payload of that kind.
SuppressedWholeJourney ==
    /\ ret # None
    /\ \/ /\ call.fn = "_get_status"
          /\ call.args[5] # None
          /\ Get(call.args[5]).from_station_id = call.args[3]
          /\ Get(call.args[5]).to_station_id = call.args[4]
          /\ call.args[2] = Some(FALSE)
       \/ /\ call.fn = "get_train"
          /\ Get(ret).exc = None
          /\ Get(ret).value # None
          /\ LET json == call.args[2].json[1]
                 train == json.journey_list[1].train
             IN  /\ "suppression_start" \in DOMAIN train
                 /\ train.suppression_start_mir = json.dep_station.station_id
                 /\ train.suppression_end_mir = json.arr_station.station_id
                 /\ json.cancelled = Some(FALSE)

\* The status that call resulted in.
ResultingStatus ==
    IF call.fn = "_get_status" THEN Get(ret) ELSE Get(Get(ret).value).status

\* The current station that call classified with.
ClassifiedStation ==
    IF call.fn = "_get_status" THEN call.args[6] ELSE Get(Get(ret).value).current_station

ReachedDestination ==
    ClassifiedStation # None /\ Get(ClassifiedStation).station_type = "DESTINATION"

\* C12 as stated: a train suppressed over its whole journey, with cancelled
\* false, has status CANCELLED whatever its raw status code is.
C12_WholeSuppressionIsCancelled ==
    SuppressedWholeJourney => ResultingStatus = "CANCELLED"

\* C12: a train suppressed over its whole journey, with cancelled false, has
\* status CANCELLED whatever its raw status code is, unless its current
\* station is the destination, and then its status is NONE.
C12_WholeSuppressionIsCancelledUnlessArrived ==
    SuppressedWholeJourney
    => ResultingStatus = (IF ReachedDestination THEN "NONE" ELSE "CANCELLED")

\* C12 witness: get_train parsed a payload with a suppression of the whole
\* journey, cancelled false and the raw status code "V", of a train that has
\* not reached its destination: CANCELLED.
C12_Witness ==
    /\ call.fn = "get_train"
    /\ SuppressedWholeJourney
    /\ "status" \in DOMAIN call.args[2].json[1].journey_list[1].train
    /\ call.args[2].json[1].journey_list[1].train.status = Some("V")
    /\ ~ReachedDestination
    /\ ResultingStatus = "CANCELLED"

\* C13: get_train on a journey-day record returns a train (no error) whose
\* delay is 0 when the upstream delay is missing or null, and the upstream
\* integer otherwise.
C13_DelayNormalized ==
    (call.fn = "get_train" /\ ret # None /\ call.args[2].cause = "Train")
    => LET train == call.args[2].json[1].journey_list[1].train
           upstream == IF "delay" \in DOMAIN train THEN train.delay ELSE None
           got == Get(ret)
       IN  /\ got.exc = None
           /\ got.value # None
           /\ Get(got.value).delay = (IF upstream = None THEN 0 ELSE Get(upstream))

---------------------------------------------------------------------------
(* Properties of the snapshots the coordinator holds and publishes. *)

\* C14: in every snapshot the coordinator holds or publishes the delay is a
\* non-negative integer, whatever integer delays the payloads carried.
C14_DelayNeverNegative ==
    /\ data # None => Get(data).delay \in Nat
    /\ (published # None /\ Get(published).data # None)
       => Get(Get(published).data).delay \in Nat

\* C15: a tick on which the polling decision is false starts no fetch, leaves
\* the snapshot and the stored departure and arrival times as they were, and
\* publishes the snapshot as unchanged, not as a failure.
C15_SkipKeepsEverything ==
    [][(last_tick' # None /\ ~Get(last_tick').allowed)
       => /\ pending' = pending
          /\ state' = "IDLE"
          /\ data' = data
          /\ departure_time' = departure_time
          /\ arrival_time' = arrival_time
          /\ published' = Some([kind |-> "Unchanged", data |-> data])]_vars

\* C15 witness: a tick was declined and nothing is in flight after it.
C15_Witness ==
    /\ last_tick # None
    /\ ~Get(last_tick).allowed
    /\ state = "IDLE"
    /\ pending = <<>>
    /\ published = Some([kind |-> "Unchanged", data |-> data])

\* C16: whenever a snapshot is held, the stored departure_time and
\* arrival_time are those of the snapshot; they change only in a step that
\* ends a fetch that returned a train, and that step replaces the snapshot
\* with the fetched one and publishes it.
C16_TimesFollowSnapshot ==
    /\ [](data # None
          => /\ departure_time = Get(data).departure_time
             /\ arrival_time = Get(data).arrival_time)
    /\ [][(departure_time' # departure_time \/ arrival_time' # arrival_time)
          => /\ pending' # pending
             /\ last_fetch' = Some("Train")
             /\ data' # None
             /\ data' # data
             /\ published' = Some([kind |-> "Snapshot", data |-> data'])]_vars

\* C16 witness: a fetch returned a train of a later day than the configured
\* one; the stored times moved to those of the new snapshot.
C16_Witness ==
    /\ last_fetch = Some("Train")
    /\ data # None
    /\ DateStr(departure_time) # ConfigDate
    /\ departure_time = Get(data).departure_time
    /\ arrival_time = Get(data).arrival_time

---------------------------------------------------------------------------
(* Properties of the sensors. handled holds the data and the clock the     *)
(* handlers of the three sensors just ran on.                              *)

\* C17: every update the status, delay and suppression sensors handle
\* carries a train: the handlers never run on data that is None.
C17_HandlersSeeATrain ==
    handled # None => Get(handled).data # None

\* The suppression sensor's attributes.
SuppressionSensor == Get(entities).suppression

\* C18: after every update handled by the suppression sensor, is_on is true
\* iff the snapshot has a suppression and its arrival_time is later than the
\* clock; when is_on is not true both station names are None, and when it is
\* true they are the names of the snapshot's suppression.
C18_SuppressionSensorFollowsSnapshot ==
    handled # None
    => LET h == Get(handled)
           on == SuppressionSensor._attr_is_on = Some(TRUE)
       IN  /\ h.data # None => SuppressionSensor._attr_is_on \in {Some(TRUE), Some(FALSE)}
           /\ on <=> /\ h.data # None
                     /\ Get(h.data).suppression # None
                     /\ Seconds(Get(h.data).arrival_time) > Seconds(h.now)
           /\ ~on => /\ SuppressionSensor._attr_from_station_name = None
                     /\ SuppressionSensor._attr_to_station_name = None
           /\ on => /\ SuppressionSensor._attr_from_station_name
                          = Get(Get(h.data).suppression).from_station_name
                    /\ SuppressionSensor._attr_to_station_name
                          = Get(Get(h.data).suppression).to_station_name

\* C18 witness: the sensor handled a snapshot that has a suppression at or
\* after its arrival: it is off and both names are None.
C18_Witness ==
    /\ handled # None
    /\ Get(handled).data # None
    /\ SuppressionSensor._attr_is_on = Some(FALSE)
    /\ SuppressionSensor._attr_from_station_name = None
    /\ SuppressionSensor._attr_to_station_name = None
    /\ Get(Get(handled).data).suppression # None
    /\ Seconds(Get(Get(handled).data).arrival_time) <= Seconds(Get(handled).now)

\* C19: after every update handled by the delay sensor, its value is the
\* snapshot's delay when the snapshot's arrival_time is later than the clock,
\* and 0 otherwise.
C19_DelaySensorResetsOnArrival ==
    (handled # None /\ Get(handled).data # None)
    => LET h == Get(handled)
           train == Get(h.data)
       IN  Get(entities).delay._attr_native_value
             = Some(IF Seconds(train.arrival_time) > Seconds(h.now) THEN train.delay ELSE 0)

\* C19 witness: the delay sensor handled a snapshot with a delay of MaxDelay
\* minutes at the very second of its arrival and shows 0.
C19_Witness ==
    /\ handled # None
    /\ Get(handled).data # None
    /\ Get(Get(handled).data).delay = MaxDelay
    /\ Get(Get(handled).data).arrival_time = Get(handled).now
    /\ Get(entities).delay._attr_native_value = Some(0)

====
